---- MODULE Spec2Model ----
(***************************************************************************)
(* Model of the Rust Cloudflare Worker template (rust-worker.rs): the user *)
(* CRUD handlers over the D1 "users" table, the list handler's pagination  *)
(* arithmetic and the compute handler.  One action per handler; each       *)
(* action is the whole handler, from the parse of the request to the       *)
(* response it returns.  The D1 binding is taken to answer every query     *)
(* (no transport failure), and requests are handled one after another.     *)
(*                                                                         *)
(* Strings that the handlers inspect (names, emails, query values) are     *)
(* sequences of one-character strings, so trim, contains and to_lowercase  *)
(* are computed.                                                           *)
(***************************************************************************)
EXTENDS Integers, Sequences, FiniteSets, TLC

\* ---------------------------------------------------------------- bounds
\* Number of ids uuid::new_v4 hands out in a run.
MaxUsers == 2

\* ------------------------------------------------------ program constants
DefaultPage == 1
DefaultLimit == 10
MaxLimit == 100

\* ------------------------------------------------------------ Option<T>
None == [tag |-> "None"]
Some(x) == [tag |-> "Some", val |-> x]
is_some(o) == o.tag = "Some"

\* ------------------------------------------------------------- str helpers
is_whitespace(c) == c = " "

RECURSIVE trim_start(_)
trim_start(s) ==
    IF s # <<>> /\ is_whitespace(Head(s)) THEN trim_start(Tail(s)) ELSE s

RECURSIVE trim_end(_)
trim_end(s) ==
    IF s # <<>> /\ is_whitespace(s[Len(s)])
    THEN trim_end(SubSeq(s, 1, Len(s) - 1))
    ELSE s

trim(s) == trim_end(trim_start(s))

is_empty(s) == Len(s) = 0

contains(s, c) == \E i \in 1..Len(s) : s[i] = c

lower_char(c) ==
    CASE c = "A" -> "a"
      [] c = "B" -> "b"
      [] OTHER -> c

to_lowercase(s) == [i \in 1..Len(s) |-> lower_char(s[i])]

\* ------------------------------------------------------------------ u32
\* A 32-bit quantity is kept as two 16-bit limbs, value = hi * 2^16 + lo with
\* 0 <= lo < 2^16.  The mathematical result of an operation is the same pair
\* with hi free to leave 0..2^16-1; it fits a u32 exactly when hi has not.
Limb == 2 ^ 16

Wide(hi, lo) == [hi |-> hi + (lo \div Limb), lo |-> lo % Limb]

U32(n) == Wide(0, n)

FitsU32(v) == 0 <= v.hi /\ v.hi < Limb

\* What a wrapping (release-build) u32 operation keeps of the result.
Wrap(v) == [hi |-> v.hi % Limb, lo |-> v.lo]

WideLeq(a, b) == a.hi < b.hi \/ (a.hi = b.hi /\ a.lo <= b.lo)

\* a - 1 and a * n over the integers (n below 2^15).
WideSub1(a) == Wide(a.hi, a.lo - 1)

WideMul(a, n) == Wide(a.hi * n, a.lo * n)

\* Ord::min on u32.
u32_min(a, b) == IF WideLeq(a, b) THEN a ELSE b

DigitChars == <<"0", "1", "2", "3", "4", "5", "6", "7", "8", "9">>

IsDigit(c) == \E k \in 1..10 : DigitChars[k] = c

DigitValue(c) == (CHOOSE k \in 1..10 : DigitChars[k] = c) - 1

RECURSIVE DecimalValue(_)
DecimalValue(s) ==
    IF s = <<>> THEN U32(0)
    ELSE LET rest == DecimalValue(SubSeq(s, 1, Len(s) - 1))
         IN  Wide(rest.hi * 10, rest.lo * 10 + DigitValue(s[Len(s)]))

\* str::parse::<u32>(): an optional '+', then one or more decimal digits whose
\* value fits in 32 bits; anything else is an Err.
parse_u32(s) ==
    LET digits == IF s # <<>> /\ Head(s) = "+" THEN Tail(s) ELSE s
    IN  IF digits # <<>> /\ (\A i \in 1..Len(digits) : IsDigit(digits[i]))
           /\ FitsU32(DecimalValue(digits))
        THEN Some(DecimalValue(digits))
        ELSE None

unwrap_or(o, default) == IF is_some(o) THEN o.val ELSE default

Min(a, b) == IF a <= b THEN a ELSE b

\* ------------------------------------------------------------ input sets
\* Path parameter :id.  Ids are opaque; uuid::new_v4 hands out 1, 2, ... in turn
\* and a request may name any of them, issued or not.
Ids == 1..MaxUsers
\* Instants chrono::Utc::now() returns; only their order matters.
Times == {0, 1}

\* Names: all whitespace, plain, padded.  Emails: no '@', upper case, lower case.
NameInputs == { <<" ">>, <<"a">>, <<" ", "b", " ">> }
EmailInputs == { <<"a">>, <<"A", "@">>, <<"b", "@">> }

Malformed == [json |-> "malformed"]
\* A well-formed JSON object; a key that is missing is None.
JsonObject(n, e) == [json |-> "object", name |-> n, email |-> e]

OptOf(S) == {None} \cup {Some(x) : x \in S}

UserBodies ==
    {Malformed} \cup {JsonObject(n, e) : n \in OptOf(NameInputs), e \in OptOf(EmailInputs)}

\* Values of the page and limit query parameters: not a number, 0, 1, 2, 101,
\* 2^32 - 1 and 2^32.
QueryValues ==
    { <<"x">>, <<"0">>, <<"1">>, <<"2">>, <<"1", "0", "1">>,
      <<"4", "2", "9", "4", "9", "6", "7", "2", "9", "5">>,
      <<"4", "2", "9", "4", "9", "6", "7", "2", "9", "6">> }

Queries == [page : OptOf(QueryValues), limit : OptOf(QueryValues)]

\* ------------------------------------------------------ response builders
\* ApiResponse<T> serialised by Response::from_json, with the status the
\* handler leaves (200) or sets with with_status.
ApiResponse(status, success, data, error) ==
    [kind |-> "ApiResponse", status |-> status, success |-> success,
     data |-> data, error |-> error]

\* An error message is the sequence of its parts: a literal is one part, and
\* format!("Unknown operation: {}", op) is the literal followed by op.
Literal(text) == <<text>>

Failure(status, message) == ApiResponse(status, FALSE, None, Some(message))

PaginatedResponse(data, page, limit, total) ==
    [kind |-> "PaginatedResponse", status |-> 200, data |-> data,
     page |-> page, limit |-> limit, total |-> total]

\* The handler's future ends in a Rust panic: no response is built.
Panic == [kind |-> "panic"]

NoResponse == [kind |-> "none"]

\* ------------------------------------------------------------ serde parse
\* req.json::<CreateUserRequest>(): both fields are required strings.
ParseCreateUserRequest(body) ==
    IF body.json = "object" /\ is_some(body.name) /\ is_some(body.email)
    THEN Some([name |-> body.name.val, email |-> body.email.val])
    ELSE None

\* req.json::<UpdateUserRequest>(): both fields are Option<String>.
ParseUpdateUserRequest(body) ==
    IF body.json = "object"
    THEN Some([name |-> body.name, email |-> body.email])
    ELSE None

\* -------------------------------------------------------------- D1 "users"
\* The table is a function from the ids present to their rows.  The repository
\* holds no schema for it: the table enforces nothing beyond what the
\* statements below say.
User(id, name, email, created_at) ==
    [id |-> id, name |-> name, email |-> email, created_at |-> created_at]

\* SELECT * FROM users WHERE id = ?   (.first)
SqlSelectById(db, id) == IF id \in DOMAIN db THEN Some(db[id]) ELSE None

\* SELECT id FROM users WHERE email = ?   (.first)
SqlSelectIdByEmail(db, email) ==
    IF \E i \in DOMAIN db : db[i].email = email
    THEN Some(CHOOSE i \in DOMAIN db : db[i].email = email)
    ELSE None

\* INSERT INTO users (id, name, email, created_at) VALUES (?, ?, ?, ?)
SqlInsert(db, id, name, email, created_at) ==
    [i \in DOMAIN db \cup {id} |->
        IF i = id THEN User(id, name, email, created_at) ELSE db[i]]

\* UPDATE users SET name = ?, email = ? WHERE id = ?
SqlUpdate(db, name, email, id) ==
    [i \in DOMAIN db |->
        IF i = id THEN [db[i] EXCEPT !.name = name, !.email = email] ELSE db[i]]

\* DELETE FROM users WHERE id = ?   with result.meta().changes
SqlDelete(db, id) ==
    [db |-> [i \in DOMAIN db \ {id} |-> db[i]],
     changes |-> Cardinality(DOMAIN db \cap {id})]

\* The statements a handler sends to D1, in order.
Call(sql, args) == [sql |-> sql, args |-> args]

IsWrite(c) == c.sql \in {"INSERT", "UPDATE", "DELETE"}

Outcome(resp, db, calls) == [resp |-> resp, db |-> db, calls |-> calls]

\* ------------------------------------------------------- handle_create_user
\* The "Validate" block: the message of the first check that fails, if any.
ValidateCreate(input) ==
    IF is_empty(trim(input.name)) THEN Some(Literal("Name is required"))
    ELSE IF ~contains(input.email, "@") THEN Some(Literal("Invalid email"))
    ELSE None

\* Faulty variant: the email is bound as given, not lower-cased.
LookupKeyRaw(input) == input.email

\* The value bound in "SELECT id FROM users WHERE email = ?".
LookupKey(input) == to_lowercase(input.email)

\* From "Check for existing email" to the 201: the lookup, then the insert.
CreateChecked(input, id, now, db) ==
    LET lookup == Call("SELECT_ID_BY_EMAIL", <<LookupKey(input)>>)
        existing == SqlSelectIdByEmail(db, LookupKey(input))
    IN  IF is_some(existing)
        THEN Outcome(Failure(409, Literal("Email already exists")), db, <<lookup>>)
        ELSE
        LET name == trim(input.name)
            email == to_lowercase(input.email)
            user == User(id, name, email, now)
        IN  Outcome(ApiResponse(201, TRUE, Some(user), None),
                    SqlInsert(db, id, name, email, now),
                    <<lookup, Call("INSERT", <<id, name, email, now>>)>>)

\* Faulty variant: the email lookup is sent before the input is validated.
handle_create_user_lookup_first(body, id, now, db) ==
    LET parsed == ParseCreateUserRequest(body)
    IN  IF ~is_some(parsed)
        THEN Outcome(Failure(400, Literal("Invalid JSON body")), db, <<>>)
        ELSE
        LET checked == CreateChecked(parsed.val, id, now, db)
            invalid == ValidateCreate(parsed.val)
        IN  IF is_some(invalid)
            THEN Outcome(Failure(400, invalid.val), db, <<checked.calls[1]>>)
            ELSE checked

handle_create_user(body, id, now, db) ==
    LET parsed == ParseCreateUserRequest(body)
    IN  IF ~is_some(parsed)
        THEN Outcome(Failure(400, Literal("Invalid JSON body")), db, <<>>)
        ELSE
        LET invalid == ValidateCreate(parsed.val)
        IN  IF is_some(invalid)
            THEN Outcome(Failure(400, invalid.val), db, <<>>)
            ELSE CreateChecked(parsed.val, id, now, db)

\* ---------------------------------------------------------- handle_get_user
\* Faulty variant: the not-found envelope is returned without with_status(404).
handle_get_user_no_status(id, db) ==
    LET user == SqlSelectById(db, id)
        calls == <<Call("SELECT_BY_ID", <<id>>)>>
    IN  IF is_some(user)
        THEN Outcome(ApiResponse(200, TRUE, Some(user.val), None), db, calls)
        ELSE Outcome(Failure(200, Literal("User not found")), db, calls)

handle_get_user(id, db) ==
    LET user == SqlSelectById(db, id)
        calls == <<Call("SELECT_BY_ID", <<id>>)>>
    IN  IF is_some(user)
        THEN Outcome(ApiResponse(200, TRUE, Some(user.val), None), db, calls)
        ELSE Outcome(Failure(404, Literal("User not found")), db, calls)

\* ------------------------------------------------------- handle_update_user
\* Faulty variant: each field is written to the table as soon as it has passed its
\* own check, so the name is persisted before the email is looked at.
ApplyUpdatesEager(user, input, id, db, calls) ==
    IF is_some(input.name) /\ is_empty(trim(input.name.val))
    THEN Outcome(Failure(400, Literal("Name cannot be empty")), db, calls)
    ELSE
    LET user1 == IF is_some(input.name)
                 THEN [user EXCEPT !.name = trim(input.name.val)]
                 ELSE user
        db1 == SqlUpdate(db, user1.name, user1.email, id)
        calls1 == Append(calls, Call("UPDATE", <<user1.name, user1.email, id>>))
    IN  IF is_some(input.email) /\ ~contains(input.email.val, "@")
        THEN Outcome(Failure(400, Literal("Invalid email")), db1, calls1)
        ELSE
        LET user2 == IF is_some(input.email)
                     THEN [user1 EXCEPT !.email = to_lowercase(input.email.val)]
                     ELSE user1
        IN  Outcome(ApiResponse(200, TRUE, Some(user2), None),
                    SqlUpdate(db1, user2.name, user2.email, id),
                    Append(calls1, Call("UPDATE", <<user2.name, user2.email, id>>)))

\* The "Apply updates" block and the UPDATE that follows it: `user` is the row
\* read by the existence check, `input` the parsed UpdateUserRequest.
ApplyUpdates(user, input, id, db, calls) ==
    IF is_some(input.name) /\ is_empty(trim(input.name.val))
    THEN Outcome(Failure(400, Literal("Name cannot be empty")), db, calls)
    ELSE
    LET user1 == IF is_some(input.name)
                 THEN [user EXCEPT !.name = trim(input.name.val)]
                 ELSE user
    IN  IF is_some(input.email) /\ ~contains(input.email.val, "@")
        THEN Outcome(Failure(400, Literal("Invalid email")), db, calls)
        ELSE
        LET user2 == IF is_some(input.email)
                     THEN [user1 EXCEPT !.email = to_lowercase(input.email.val)]
                     ELSE user1
        IN  Outcome(ApiResponse(200, TRUE, Some(user2), None),
                    SqlUpdate(db, user2.name, user2.email, id),
                    Append(calls, Call("UPDATE", <<user2.name, user2.email, id>>)))

\* Faulty variant: the body is parsed before the existence check.
handle_update_user_parse_first(id, body, db) ==
    LET calls == <<Call("SELECT_BY_ID", <<id>>)>>
        existing == SqlSelectById(db, id)
        parsed == ParseUpdateUserRequest(body)
    IN  IF ~is_some(parsed)
        THEN Outcome(Failure(400, Literal("Invalid JSON body")), db, <<>>)
        ELSE IF ~is_some(existing)
        THEN Outcome(Failure(404, Literal("User not found")), db, calls)
        ELSE ApplyUpdates(existing.val, parsed.val, id, db, calls)

handle_update_user(id, body, db) ==
    LET calls == <<Call("SELECT_BY_ID", <<id>>)>>
        existing == SqlSelectById(db, id)
    IN  IF ~is_some(existing)
        THEN Outcome(Failure(404, Literal("User not found")), db, calls)
        ELSE
        LET parsed == ParseUpdateUserRequest(body)
        IN  IF ~is_some(parsed)
            THEN Outcome(Failure(400, Literal("Invalid JSON body")), db, calls)
            ELSE ApplyUpdates(existing.val, parsed.val, id, db, calls)

\* ------------------------------------------------------- handle_delete_user
\* Faulty variant: the rows-affected check is left out.
handle_delete_user_unchecked(id, db) ==
    Outcome(ApiResponse(200, TRUE, None, None), SqlDelete(db, id).db,
            <<Call("DELETE", <<id>>)>>)

handle_delete_user(id, db) ==
    LET result == SqlDelete(db, id)
        calls == <<Call("DELETE", <<id>>)>>
    IN  IF result.changes = 0
        THEN Outcome(Failure(404, Literal("User not found")), result.db, calls)
        ELSE Outcome(ApiResponse(200, TRUE, None, None), result.db, calls)

\* -------------------------------------------------------- handle_list_users
\* The orders SELECT ... ORDER BY created_at DESC can return the rows in: rows
\* with equal created_at come in any order.
Orderings(db) ==
    { s \in [1..Cardinality(DOMAIN db) -> DOMAIN db] :
        /\ \A i, j \in DOMAIN s : i # j => s[i] # s[j]
        /\ \A i, j \in DOMAIN s : i < j => db[s[i]].created_at >= db[s[j]].created_at }

\* SELECT * FROM users ORDER BY created_at DESC LIMIT ? OFFSET ?, the rows
\* coming in the order `order`.
SqlSelectPage(db, order, limit, offset) ==
    LET n == Len(order)
        skip == IF offset.hi > 0 THEN n ELSE Min(offset.lo, n)
        take == IF limit.hi > 0 THEN n ELSE Min(limit.lo, n - skip)
    IN  [k \in 1..take |-> db[order[skip + k]]]

\* SELECT COUNT(*) as count FROM users
SqlCount(db) == U32(Cardinality(DOMAIN db))

\* `overflow_checks` is the build's setting: with it an overflowing u32
\* operation panics, without it the operation wraps.
\* query.get(key).and_then(|v| v.parse().ok())
ParsedParam(value) == IF is_some(value) THEN parse_u32(value.val) ELSE None

PageOf(query) == unwrap_or(ParsedParam(query.page), U32(DefaultPage))

LimitOf(query) ==
    u32_min(unwrap_or(ParsedParam(query.limit), U32(DefaultLimit)), U32(MaxLimit))

handle_list_users(query, db, order, overflow_checks) ==
    LET page == PageOf(query)
        limit == LimitOf(query)
        diff == WideSub1(page)
        product == WideMul(Wrap(diff), limit.lo)
        offset == Wrap(product)
    IN  IF overflow_checks /\ (~FitsU32(diff) \/ ~FitsU32(product))
        THEN Outcome(Panic, db, <<>>)
        ELSE Outcome(PaginatedResponse(SqlSelectPage(db, order, limit, offset),
                                       page, limit, SqlCount(db)),
                     db,
                     <<Call("SELECT_PAGE", <<limit, offset>>), Call("COUNT", <<>>)>>)

\* ----------------------------------------------------------- handle_compute
\* f64 values are modelled exactly: the data are integers, a result is the
\* rational num/den, or its square root when root is TRUE.
DataInputs == { <<>>, <<2>>, <<1, 3>>, <<3, 1, 2>> }
Operations == { "sum", "mean", "max", "min", "std", "bogus", "" }

ComputeBodies ==
    {Malformed} \cup
    {[json |-> "object", data |-> d, operation |-> o] : d \in DataInputs, o \in Operations}

\* req.json::<ComputeRequest>()
ParseComputeRequest(body) ==
    IF body.json = "object"
    THEN Some([data |-> body.data, operation |-> body.operation])
    ELSE None

Rational(num, den) == [num |-> num, den |-> den, root |-> FALSE]
Sqrt(q) == [q EXCEPT !.root = TRUE]

NegInfinity == [inf |-> -1, v |-> 0]
Infinity == [inf |-> 1, v |-> 0]
Finite(x) == [inf |-> 0, v |-> x]

F64Less(a, b) == a.inf < b.inf \/ (a.inf = 0 /\ b.inf = 0 /\ a.v < b.v)
f64_max(a, b) == IF F64Less(a, b) THEN b ELSE a
f64_min(a, b) == IF F64Less(b, a) THEN b ELSE a

\* iter().cloned().fold(acc, f64::max) and fold(acc, f64::min)
RECURSIVE fold_max(_, _)
fold_max(s, acc) ==
    IF s = <<>> THEN acc ELSE fold_max(Tail(s), f64_max(acc, Finite(Head(s))))

RECURSIVE fold_min(_, _)
fold_min(s, acc) ==
    IF s = <<>> THEN acc ELSE fold_min(Tail(s), f64_min(acc, Finite(Head(s))))

RECURSIVE sum(_)
sum(s) == IF s = <<>> THEN 0 ELSE Head(s) + sum(Tail(s))

\* Sum of (x - mean)^2 over the data, times len^2.
SquaredDeviations(s) ==
    sum([i \in 1..Len(s) |-> (Len(s) * s[i] - sum(s)) * (Len(s) * s[i] - sum(s))])

ComputeResult(result, operation, count) ==
    [result |-> result, operation |-> operation, count |-> count]

KnownOperations == {"sum", "mean", "max", "min", "std"}

\* The match on input.operation, for an operation it knows.
Reduce(data, operation) ==
    CASE operation = "sum" -> Rational(sum(data), 1)
      [] operation = "mean" -> Rational(sum(data), Len(data))
      [] operation = "max" -> Rational(fold_max(data, NegInfinity).v, 1)
      [] operation = "min" -> Rational(fold_min(data, Infinity).v, 1)
      [] operation = "std" ->
            Sqrt(Rational(SquaredDeviations(data), Len(data) * Len(data) * Len(data)))

UnknownOperation(operation) ==
    Failure(400, <<"Unknown operation: ", operation>>)

\* Faulty variant: the operation is matched before the data is checked for emptiness.
handle_compute_match_first(body) ==
    LET parsed == ParseComputeRequest(body)
    IN  IF ~is_some(parsed)
        THEN Outcome(Failure(400, Literal("Invalid JSON")), <<>>, <<>>)
        ELSE
        LET input == parsed.val
        IN  IF input.operation \notin KnownOperations
            THEN Outcome(UnknownOperation(input.operation), <<>>, <<>>)
            ELSE IF is_empty(input.data)
            THEN Outcome(Failure(400, Literal("Data array is empty")), <<>>, <<>>)
            ELSE Outcome(ApiResponse(200, TRUE,
                                     Some(ComputeResult(Reduce(input.data, input.operation),
                                                        input.operation, Len(input.data))),
                                     None),
                         <<>>, <<>>)

handle_compute(body) ==
    LET parsed == ParseComputeRequest(body)
    IN  IF ~is_some(parsed)
        THEN Outcome(Failure(400, Literal("Invalid JSON")), <<>>, <<>>)
        ELSE
        LET input == parsed.val
        IN  IF is_empty(input.data)
            THEN Outcome(Failure(400, Literal("Data array is empty")), <<>>, <<>>)
            ELSE IF input.operation \notin KnownOperations
            THEN Outcome(UnknownOperation(input.operation), <<>>, <<>>)
            ELSE Outcome(ApiResponse(200, TRUE,
                                     Some(ComputeResult(Reduce(input.data, input.operation),
                                                        input.operation, Len(input.data))),
                                     None),
                         <<>>, <<>>)

\* ------------------------------------------------------------------ state
VARIABLES
    users,      \* the D1 users table
    issued,     \* how many ids uuid::new_v4 has handed out
    req,        \* the request handled last
    resp,       \* the response to it
    calls,      \* the D1 statements its handler sent, in order
    before      \* the users table as that handler found it

vars == <<users, issued, req, resp, calls, before>>

Request(op, id, body, query) == [op |-> op, id |-> id, body |-> body, query |-> query]

Init ==
    /\ users = <<>>
    /\ issued = 0
    /\ req = Request("none", 0, None, None)
    /\ resp = NoResponse
    /\ calls = <<>>
    /\ before = <<>>

\* The router hands the request to its handler and returns the handler's
\* response; the handler's D1 writes are in the table when it returns.
Handled(request, outcome) ==
    LET out == outcome
    IN  /\ req' = request
        /\ resp' = out.resp
        /\ calls' = out.calls
        /\ before' = users
        /\ users' = out.db

\* GET /api/users
ListUsers ==
    \E query \in Queries, order \in Orderings(users), overflow_checks \in BOOLEAN :
        /\ Handled(Request("list", 0, None, query),
                   handle_list_users(query, users, order, overflow_checks))
        /\ UNCHANGED issued

\* POST /api/users
CreateUser ==
    \E body \in UserBodies, now \in Times :
        LET out == handle_create_user(body, issued + 1, now, users)
            inserted == out.resp.status = 201
        IN  /\ inserted => issued < MaxUsers
            /\ Handled(Request("create", 0, body, None), out)
            /\ issued' = IF inserted THEN issued + 1 ELSE issued

\* GET /api/users/:id
GetUser ==
    \E id \in Ids :
        /\ Handled(Request("get", id, None, None), handle_get_user(id, users))
        /\ UNCHANGED issued

\* PUT /api/users/:id
UpdateUser ==
    \E id \in Ids, body \in UserBodies :
        /\ Handled(Request("update", id, body, None), handle_update_user(id, body, users))
        /\ UNCHANGED issued

\* DELETE /api/users/:id
DeleteUser ==
    \E id \in Ids :
        /\ Handled(Request("delete", id, None, None), handle_delete_user(id, users))
        /\ UNCHANGED issued

\* POST /api/compute
Compute ==
    \E body \in ComputeBodies :
        /\ req' = Request("compute", 0, body, None)
        /\ resp' = handle_compute(body).resp
        /\ calls' = <<>>
        /\ before' = users
        /\ UNCHANGED <<users, issued>>

\* The worker serving user CRUD requests one after another, from an empty
\* table.
Next ==
    \/ CreateUser
    \/ GetUser
    \/ UpdateUser
    \/ DeleteUser

Spec == Init /\ [][Next]_vars

\* One request of any route, served against any table the CRUD handlers can
\* have left behind: rows keyed by issued ids, names trimmed and non-empty,
\* emails lower-cased and holding '@'.
StoredNames == { trim(n) : n \in { m \in NameInputs : ~is_empty(trim(m)) } }
StoredEmails == { to_lowercase(e) : e \in { m \in EmailInputs : contains(m, "@") } }

TablesOver(ids) ==
    { [i \in ids |-> User(i, t[i].name, t[i].email, t[i].created_at)] :
        t \in [ids -> [name : StoredNames, email : StoredEmails, created_at : Times]] }

InitOne ==
    /\ issued \in 0..MaxUsers
    /\ users \in UNION { TablesOver(ids) : ids \in SUBSET (1..issued) }
    /\ req = Request("none", 0, None, None)
    /\ resp = NoResponse
    /\ calls = <<>>
    /\ before = <<>>

Fresh == req.op = "none"

OneListUsers == Fresh /\ ListUsers
OneCreateUser == Fresh /\ CreateUser
OneGetUser == Fresh /\ GetUser
OneUpdateUser == Fresh /\ UpdateUser
OneDeleteUser == Fresh /\ DeleteUser
OneCompute == Fresh /\ Compute

NextOne ==
    \/ OneListUsers
    \/ OneCreateUser
    \/ OneGetUser
    \/ OneUpdateUser
    \/ OneDeleteUser
    \/ OneCompute

SpecOne == InitOne /\ [][NextOne]_vars

\* ================================================================ claims
IsEnvelope == resp.kind = "ApiResponse"

NotFound == Failure(404, Literal("User not found"))

\* The body of the last request, as the create and update handlers parse it.
CreateInput == ParseCreateUserRequest(req.body)
UpdateInput == ParseUpdateUserRequest(req.body)

ValidationMessages ==
    { Literal("Name is required"), Literal("Name cannot be empty"),
      Literal("Invalid email") }

RejectedByValidation ==
    IsEnvelope /\ resp.status = 400 /\ resp.error \in { Some(m) : m \in ValidationMessages }

\* C1: an update of an id that is not in the table answers 404 "User not
\* found" whatever the body is (well-formed, malformed, invalid fields),
\* never 400, and leaves the table as it was.
C1_UpdateMissingIs404 ==
    (req.op = "update" /\ req.id \notin DOMAIN before) =>
        /\ resp = NotFound
        /\ resp.status # 400
        /\ users = before

C1_Witness ==
    /\ req.op = "update"
    /\ req.id \notin DOMAIN before
    /\ before # <<>>
    /\ req.body = Malformed
    /\ resp.status = 404

\* C2: a create with a valid name and an email whose lower-cased form is the
\* email of a user in the table answers 409 "Email already exists" and
\* inserts nothing; a create that answers 201 stores the lower-cased email,
\* so the user it made is found by every later create with an email that
\* lower-cases to the same string, until it is deleted or its email changed.
C2_DuplicateEmailIs409 ==
    (req.op = "create" /\ is_some(CreateInput)
       /\ ~is_empty(trim(CreateInput.val.name)) /\ contains(CreateInput.val.email, "@")) =>
        IF \E i \in DOMAIN before : before[i].email = to_lowercase(CreateInput.val.email)
        THEN /\ resp = Failure(409, Literal("Email already exists"))
             /\ users = before
        ELSE /\ resp.status = 201
             /\ \E i \in DOMAIN users \ DOMAIN before :
                    users[i].email = to_lowercase(CreateInput.val.email)

C2_Witness ==
    /\ req.op = "create"
    /\ resp.status = 409
    /\ CreateInput.val.email # to_lowercase(CreateInput.val.email)
    /\ users = before

\* C3 as stated: a request rejected with 400 "Name is required" / "Name cannot
\* be empty" / "Invalid email" has sent no statement to the database.
C3_NoCallBeforeRejection ==
    (req.op \in {"create", "update"} /\ RejectedByValidation) => calls = <<>>

\* C3 amended: a create rejected by validation has sent no statement to the
\* database; an update rejected by validation has sent exactly the SELECT by
\* id of its existence check and no write; in both the table is unchanged.
C3_NoWriteBeforeRejection ==
    /\ (req.op = "create" /\ RejectedByValidation) => calls = <<>> /\ users = before
    /\ (req.op = "update" /\ RejectedByValidation) =>
          calls = <<Call("SELECT_BY_ID", <<req.id>>)>> /\ users = before

C3_Witness ==
    /\ req.op = "update"
    /\ RejectedByValidation
    /\ resp.error = Some(Literal("Invalid email"))
    /\ calls = <<Call("SELECT_BY_ID", <<req.id>>)>>

\* The UPDATE statements among the calls of the last request.
Updates == { k \in DOMAIN calls : calls[k].sql = "UPDATE" }

\* The row an update with body `input` is to leave in place of `row`.
UpdatedRow(row, input) ==
    [id |-> row.id,
     name |-> IF is_some(input.name) THEN trim(input.name.val) ELSE row.name,
     email |-> IF is_some(input.email) THEN to_lowercase(input.email.val) ELSE row.email,
     created_at |-> row.created_at]

\* C4: an update of an existing user sends at most one UPDATE and no other
\* write, and only with status 200, after every provided field has passed
\* its check.  With status 400 the table is what it was.  With status 200
\* the row has each provided field replaced (name trimmed, email lower-cased)
\* and each absent field, id and created_at as before; other rows unchanged.
C4_NoPartialUpdate ==
    (req.op = "update" /\ req.id \in DOMAIN before) =>
        /\ Cardinality(Updates) <= 1
        /\ \A k \in DOMAIN calls : IsWrite(calls[k]) => k \in Updates /\ resp.status = 200
        /\ resp.status \in {200, 400}
        /\ resp.status = 400 => users = before
        /\ resp.status = 200 =>
              /\ is_some(UpdateInput)
              /\ is_some(UpdateInput.val.name) => ~is_empty(trim(UpdateInput.val.name.val))
              /\ is_some(UpdateInput.val.email) => contains(UpdateInput.val.email.val, "@")
              /\ Cardinality(Updates) = 1
              /\ users = [before EXCEPT ![req.id] = UpdatedRow(before[req.id], UpdateInput.val)]
              /\ resp.data = Some(users[req.id])

\* A valid new name together with an email lacking '@'.
C4_Witness ==
    /\ req.op = "update"
    /\ req.id \in DOMAIN before
    /\ is_some(UpdateInput)
    /\ is_some(UpdateInput.val.name) /\ is_some(UpdateInput.val.email)
    /\ ~is_empty(trim(UpdateInput.val.name.val))
    /\ trim(UpdateInput.val.name.val) # before[req.id].name
    /\ ~contains(UpdateInput.val.email.val, "@")
    /\ resp.status = 400

\* What one delete request does.
DeleteContract ==
    req.op = "delete" =>
        IF req.id \notin DOMAIN before
        THEN resp = NotFound /\ users = before
        ELSE /\ resp = ApiResponse(200, TRUE, None, None)
             /\ DOMAIN users = DOMAIN before \ {req.id}
             /\ \A i \in DOMAIN users : users[i] = before[i]

\* A request for the id a successful delete has just removed.
GoneAfterDelete ==
    (req.op = "delete" /\ resp.status = 200
       /\ req'.op \in {"get", "update", "delete"} /\ req'.id = req.id) =>
        resp' = NotFound

\* C5: a delete of an id that is not in the table answers 404 "User not
\* found" and leaves the table unchanged; a delete of an id in the table
\* answers 200 with success, no data and no error, removes exactly that row
\* and leaves every other row; a get, update or delete of the same id that
\* follows a successful delete answers 404.
C5_Delete == [][DeleteContract' /\ GoneAfterDelete]_vars

C5_Witness ==
    /\ req.op = "delete"
    /\ resp.status = 200
    /\ req.id \in DOMAIN before
    /\ users # <<>>

\* C6: every ApiResponse envelope of create, get, update, delete and compute
\* has: success implies no error and status 200 or 201; failure implies no
\* data, an error message and status 400, 404 or 409.
C6_Envelope ==
    /\ req.op \in {"create", "get", "update", "delete", "compute"} => IsEnvelope
    /\ IsEnvelope =>
          /\ resp.success => resp.error = None /\ resp.status \in {200, 201}
          /\ ~resp.success =>
                /\ resp.data = None
                /\ is_some(resp.error)
                /\ resp.status \in {400, 404, 409}

C6_Witness ==
    /\ req.op = "get"
    /\ IsEnvelope
    /\ ~resp.success
    /\ resp.status = 404

\* The page and limit the last list request gave, where they parse as u32.
GivenPage == ParsedParam(req.query.page)
GivenLimit == ParsedParam(req.query.limit)

\* (page - 1) * limit over the integers.
ExactOffset(page, limit) == WideMul(WideSub1(page), limit.lo)

IsPage == resp.kind = "PaginatedResponse"

\* C7: for every page >= 1 and limit in 1..100 given in the query, the list
\* handler queries with LIMIT = limit and OFFSET = (page - 1) * limit, echoes
\* page and limit and returns at most limit rows; a limit above 100 is
\* clamped to 100; a missing or unparsable page or limit falls back to 1 and
\* 10 and the request is not rejected.
C7_Pagination ==
    req.op = "list" =>
        /\ (/\ is_some(GivenPage) /\ WideLeq(U32(1), GivenPage.val)
            /\ is_some(GivenLimit) /\ WideLeq(U32(1), GivenLimit.val)
            /\ WideLeq(GivenLimit.val, U32(100))) =>
              /\ IsPage
              /\ calls[1] = Call("SELECT_PAGE",
                                 <<GivenLimit.val, ExactOffset(GivenPage.val, GivenLimit.val)>>)
              /\ resp.page = GivenPage.val
              /\ resp.limit = GivenLimit.val
              /\ Len(resp.data) <= GivenLimit.val.lo
        /\ (IsPage /\ is_some(GivenLimit) /\ ~WideLeq(GivenLimit.val, U32(100))) =>
              resp.limit = U32(100)
        /\ ~is_some(GivenPage) => IsPage /\ resp.page = U32(1)
        /\ (IsPage /\ ~is_some(GivenLimit)) => resp.limit = U32(10)
        /\ ~IsEnvelope

\* C8: a well-formed compute body with empty data answers 400 "Data array is
\* empty" whatever the operation is; with data, an operation that is none of
\* sum, mean, max, min, std answers 400 with a message holding that operation.
C8_EmptyDataFirst ==
    (req.op = "compute" /\ req.body.json = "object") =>
        /\ req.body.data = <<>> => resp = Failure(400, Literal("Data array is empty"))
        /\ (req.body.data # <<>>
              /\ req.body.operation \notin {"sum", "mean", "max", "min", "std"}) =>
              /\ IsEnvelope /\ ~resp.success /\ resp.status = 400
              /\ \E k \in DOMAIN resp.error.val : resp.error.val[k] = req.body.operation

C8_Witness ==
    /\ req.op = "compute"
    /\ req.body.json = "object"
    /\ req.body.data = <<>>
    /\ req.body.operation = "bogus"
    /\ resp.status = 400

\* C9: no two users in the table have the same email.
C9_UniqueEmails ==
    \A i, j \in DOMAIN users : i # j => users[i].email # users[j].email

\* C10: for every page that parses as a u32 and the limit as clamped,
\* page - 1 and (page - 1) * limit stay within 0..2^32-1, and the handler
\* reaches its query with that offset.
C10_OffsetInRange ==
    (req.op = "list" /\ is_some(GivenPage)) =>
        /\ FitsU32(WideSub1(GivenPage.val))
        /\ FitsU32(ExactOffset(GivenPage.val, LimitOf(req.query)))
        /\ IsPage
        /\ calls[1].args[2] = ExactOffset(GivenPage.val, LimitOf(req.query))

====
